---- MODULE Spec2Model ----
(***************************************************************************)
(* Model of the trading bot: the venue connectors (ccxt, alpaca,          *)
(* polymarket), and the TradingEngine that owns them: initialize(),       *)
(* start(), the per-strategy evaluation loops, stop(), and the            *)
(* get_all_balances() / get_all_positions() aggregates.                    *)
(*                                                                         *)
(* Every await of the code is a suspension point: the code between two    *)
(* awaits of one coroutine is one action.  What a venue SDK or a strategy *)
(* answers is drawn from small sets with \E.                              *)
(***************************************************************************)
EXTENDS Integers, Sequences, FiniteSets, TLC

(***************************************************************************)
(* Bounds of the model.                                                    *)
(***************************************************************************)
\* longest list of signals one evaluate() call returns
MaxBatch == 2
\* evaluate() calls made by all loops together
MaxEvals == 2
\* start() calls made on the engine
MaxStarts == 2
\* stop() calls made on the engine
MaxStops == 1
\* length of the strategy registry
MaxRegistered == 1
\* operations called on the stand-alone connectors
MaxCalls == 3

(***************************************************************************)
(* Vocabulary.                                                             *)
(***************************************************************************)
None == "None"

\* the class attribute `name` of the three connector classes, in the order
\* Engine.initialize() builds them
ConnectorNames == <<"ccxt", "alpaca", "polymarket">>

Venues == {"ccxt", "alpaca", "polymarket"}

\* OrderType
MARKET == "market"
LIMIT == "limit"
OrderTypes == {MARKET, LIMIT}

\* a price argument: absent, a price of zero, or some other price
ZeroPrice == "0"
SomePrice == "1"
Prices == {None, ZeroPrice, SomePrice}

\* What one call into a venue SDK does: it returns, it raises an error of
\* the SDK's own family (ccxt's BaseError), or it raises another Exception.
VenueOutcomes == {"ok", "BaseError", "Exception"}

\* What a position query into a venue SDK does: as above, or it raises
\* NotImplementedError, the venue having no positions.
PositionOutcomes == VenueOutcomes \cup {"NotImplementedError"}

\* an amount of a venue answer: absent (the key is missing, or null), or
\* a number
Absent == <<>>
Some(n) == <<n>>

\* What a venue answers to a balance or position query: a list of entries
\* (a currency or symbol with its total or number of contracts, and the
\* free and used parts of it), or an answer the connector's mapping code
\* cannot read (a total that is no number, a missing field).
Holding(currency, total, free, used) ==
    [currency |-> currency, total |-> total, free |-> free, used |-> used]

\* an entry for which the venue reports a total alone
Entry(currency, total) == Holding(currency, Some(total), Absent, Absent)
Readable(entries) == [readable |-> TRUE, entries |-> entries]
Malformed == [readable |-> FALSE, entries |-> <<>>]
VenueData ==
    {Readable(<<>>), Readable(<<Entry("BTC", 1)>>), Readable(<<Entry("BTC", 0)>>),
     Readable(<<Entry("BTC", 1), Entry("USDT", 0)>>),
     Readable(<<Holding("BTC", Some(2), Some(1), Absent),
                Holding("ETH", Absent, Some(1), Absent)>>),
     Readable(<<Entry("USDT", -1), Holding("BTC", Some(1), Some(0), Absent)>>),
     Malformed}

\* the domain object Balance
Balance(currency, free, used, total) ==
    [currency |-> currency, free |-> free, used |-> used, total |-> total]

\* `x or 0`, and the default 0 of data.get(key, 0)
OrZero(v) == IF v = Absent THEN 0 ELSE v[1]

\* The operations of BaseConnector other than initialize() and close().
Operations ==
    {"get_balance", "get_positions", "get_markets", "get_ticker",
     "get_orderbook", "place_order", "cancel_order", "get_order",
     "get_order_history"}

\* How a connector call ends.  kind: it returned ("ok") or the class of the
\* exception it raised; not_init: the exception's message is the "Connector
\* not initialized" one (or wraps it); submits: order-submission calls made
\* to the venue; value: what the call returned, for the calls whose result
\* the model follows; order_id: the exception carries the order_id argument;
\* direct: calls into a synchronous venue client made on the calling thread.
Result(kind, not_init, submits, value) ==
    [kind |-> kind, not_init |-> not_init, submits |-> submits, value |-> value,
     order_id |-> FALSE, direct |-> 0]

\* OrderError(..., order_id=order_id)
Carrying(r) == [r EXCEPT !.order_id = TRUE]

Returned(value) == Result("ok", FALSE, 0, value)
Raised(kind) == Result(kind, FALSE, 0, <<>>)
NotInitialized == Result("ConnectorError", TRUE, 0, <<>>)

(***************************************************************************)
(* CCXTConnector.  `session` is self._exchange: None or "open".            *)
(***************************************************************************)
\* A ccxt read wrapped in try / except ccxt BaseError: the `exchange`
\* property raises ConnectorError before the call, a BaseError is turned
\* into `wrapped`, any other exception leaves the connector as it is.
CCXTGuarded(session, venue, wrapped, value) ==
    IF session = None THEN NotInitialized
    ELSE IF venue = "BaseError" THEN Raised(wrapped)
    ELSE IF venue = "Exception" THEN Raised("Exception")
    ELSE Returned(value)

\* a get_balance that keeps every currency of the answer
KeepsEveryCurrency(data) ==
    [i \in 1..Len(data.entries) |->
        Balance(data.entries[i].currency, OrZero(data.entries[i].free),
                OrZero(data.entries[i].used), OrZero(data.entries[i].total))]

\* The balances built from fetch_balance()'s answer: one per currency whose
\* total is truthy and positive, in the answer's order, with 0 for a free
\* or used amount the answer lacks.  The loop stands
\* after the try, so an answer it cannot read raises as it is.
CCXTBalances(data) ==
    LET kept == SelectSeq(data.entries, LAMBDA e : OrZero(e.total) > 0) IN
    [i \in 1..Len(kept) |->
        Balance(kept[i].currency, OrZero(kept[i].free), OrZero(kept[i].used),
                OrZero(kept[i].total))]

CCXT_get_balance(session, venue, data) ==
    IF session = None THEN NotInitialized
    ELSE IF venue = "BaseError" THEN Raised("ConnectorError")
    ELSE IF venue = "Exception" THEN Raised("Exception")
    ELSE IF data = Malformed THEN Raised("Exception")
    ELSE Returned(CCXTBalances(data))

\* The positions built from fetch_positions()'s answer: those with a
\* non-zero number of contracts.
CCXTPositions(data) ==
    SelectSeq(data.entries, LAMBDA e : OrZero(e.total) # 0)

\* a get_positions that reports the venue's failure
PositionsFailWithVenue(session, venue, data) ==
    IF session = None THEN NotInitialized
    ELSE IF venue # "ok" THEN Raised("ConnectorError")
    ELSE IF data = Malformed THEN Raised("Exception")
    ELSE Returned(SelectSeq(data.entries, LAMBDA e : OrZero(e.total) # 0))

\* `except (ccxt_async.BaseError, NotImplementedError): return []`; the
\* loop that builds the positions stands after the try
CCXT_get_positions(session, venue, data) ==
    IF session = None THEN NotInitialized
    ELSE IF venue \in {"BaseError", "NotImplementedError"} THEN Returned(<<>>)
    ELSE IF venue = "Exception" THEN Raised("Exception")
    ELSE IF data = Malformed THEN Raised("Exception")
    ELSE Returned(CCXTPositions(data))

CCXT_get_markets(session) ==
    IF session = None THEN NotInitialized ELSE Returned(<<>>)

CCXT_get_ticker(session, venue) ==
    CCXTGuarded(session, venue, "ConnectorError", <<>>)

CCXT_get_orderbook(session, venue) ==
    CCXTGuarded(session, venue, "ConnectorError", <<>>)

\* No check of the price: create_order is called whenever the connector is
\* initialized.
CCXT_place_order(session, order_type, price, venue) ==
    IF session = None THEN NotInitialized
    ELSE IF venue = "BaseError" THEN Result("OrderError", FALSE, 1, <<>>)
    ELSE IF venue = "Exception" THEN Result("Exception", FALSE, 1, <<>>)
    ELSE Result("ok", FALSE, 1, <<>>)

\* a cancel_order that hides the venue's errors
CancelSwallowsErrors(session, venue) ==
    IF session = None THEN NotInitialized ELSE Returned(TRUE)

\* `return True` after the venue's cancel_order; a BaseError becomes an
\* OrderError with the order_id
CCXT_cancel_order(session, venue) ==
    IF session = None THEN NotInitialized
    ELSE IF venue = "BaseError" THEN Carrying(Raised("OrderError"))
    ELSE IF venue = "Exception" THEN Raised("Exception")
    ELSE Returned(TRUE)

CCXT_get_order(session, venue) ==
    IF session = None THEN NotInitialized
    ELSE IF venue = "BaseError" THEN Carrying(Raised("OrderError"))
    ELSE IF venue = "Exception" THEN Raised("Exception")
    ELSE Returned(<<>>)

CCXT_get_order_history(session, venue) ==
    CCXTGuarded(session, venue, "ConnectorError", <<>>)

(***************************************************************************)
(* AlpacaConnector and PolymarketConnector.  `session` is self._client.    *)
(* Their calls sit in try / except Exception, the read of the `client`    *)
(* property included, so every failure is re-raised as `wrapped`, with    *)
(* the original message inside the new one.                                *)
(***************************************************************************)
ClientGuarded(session, venue, wrapped, value) ==
    IF session = None THEN Result(wrapped, TRUE, 0, <<>>)
    ELSE IF venue # "ok" THEN Raised(wrapped)
    ELSE Returned(value)

\* The account is read in the try; the one USD balance is built after it.
Alpaca_get_balance(session, venue, data) ==
    IF session = None \/ venue # "ok"
    THEN ClientGuarded(session, venue, "ConnectorError", <<>>)
    ELSE IF data = Malformed THEN Raised("Exception")
    ELSE Returned(<<Balance("USD", 1, 0, 1)>>)

\* One Position per position of the venue, built after the try.
Alpaca_get_positions(session, venue, data) ==
    IF session = None \/ venue # "ok"
    THEN ClientGuarded(session, venue, "ConnectorError", <<>>)
    ELSE IF data = Malformed THEN Raised("Exception")
    ELSE Returned(data.entries)

\* get_markets, get_ticker and get_orderbook never touch the client
Alpaca_get_markets(session) == Returned(<<>>)

Alpaca_get_ticker(session) == Returned(<<>>)

Alpaca_get_orderbook(session) == Returned(<<>>)

Alpaca_place_order(session, order_type, price, venue) ==
    IF order_type = LIMIT /\ price = None THEN Raised("OrderError")
    ELSE IF session = None THEN Result("OrderError", TRUE, 0, <<>>)
    ELSE IF venue # "ok" THEN Result("OrderError", FALSE, 1, <<>>)
    ELSE Result("ok", FALSE, 1, <<>>)

Alpaca_cancel_order(session, venue) ==
    IF session = None \/ venue # "ok"
    THEN Carrying(ClientGuarded(session, venue, "OrderError", <<>>))
    ELSE Returned(TRUE)

Alpaca_get_order(session, venue) ==
    IF session = None \/ venue # "ok"
    THEN Carrying(ClientGuarded(session, venue, "OrderError", <<>>))
    ELSE Returned(<<>>)

Alpaca_get_order_history(session, venue) ==
    ClientGuarded(session, venue, "ConnectorError", <<>>)

\* The one USDC balance is built inside the try.
Polymarket_get_balance(session, venue, data) ==
    IF session = None \/ venue # "ok"
    THEN ClientGuarded(session, venue, "ConnectorError", <<>>)
    ELSE IF data = Malformed THEN Raised("ConnectorError")
    ELSE Returned(<<Balance("USDC", 1, 0, 1)>>)

Polymarket_get_positions(session) == Returned(<<>>)

Polymarket_get_markets(session, venue) ==
    ClientGuarded(session, venue, "ConnectorError", <<>>)

Polymarket_get_ticker(session, venue) ==
    ClientGuarded(session, venue, "ConnectorError", <<>>)

Polymarket_get_orderbook(session, venue) ==
    ClientGuarded(session, venue, "ConnectorError", <<>>)

\* Every order needs a price; the order is signed (create_order) and then
\* submitted (post_order), and `venue` is what post_order does.
Polymarket_place_order(session, order_type, price, venue) ==
    IF price = None THEN Raised("OrderError")
    ELSE IF session = None THEN Result("OrderError", TRUE, 0, <<>>)
    ELSE IF venue # "ok" THEN Result("OrderError", FALSE, 1, <<>>)
    ELSE Result("ok", FALSE, 1, <<>>)

Polymarket_cancel_order(session, venue) ==
    IF session = None \/ venue # "ok"
    THEN Carrying(ClientGuarded(session, venue, "OrderError", <<>>))
    ELSE Returned(TRUE)

Polymarket_get_order(session, venue) ==
    IF session = None \/ venue # "ok"
    THEN Carrying(ClientGuarded(session, venue, "OrderError", <<>>))
    ELSE Returned(<<>>)

Polymarket_get_order_history(session, venue) ==
    ClientGuarded(session, venue, "ConnectorError", <<>>)

\* The venue call of connector c fails with an error of the venue SDK, the
\* errors the connectors' except clauses name: a ccxt BaseError for ccxt,
\* any exception for the other two.
VenueRejects(c, venue) ==
    IF c = "ccxt" THEN venue = "BaseError" ELSE venue # "ok"

(***************************************************************************)
(* One connector operation, by connector class and operation name.         *)
(***************************************************************************)
CCXTCall(op, session, order_type, price, venue, data) ==
    CASE op = "get_balance" -> CCXT_get_balance(session, venue, data)
      [] op = "get_positions" -> CCXT_get_positions(session, venue, data)
      [] op = "get_markets" -> CCXT_get_markets(session)
      [] op = "get_ticker" -> CCXT_get_ticker(session, venue)
      [] op = "get_orderbook" -> CCXT_get_orderbook(session, venue)
      [] op = "place_order" -> CCXT_place_order(session, order_type, price, venue)
      [] op = "cancel_order" -> CCXT_cancel_order(session, venue)
      [] op = "get_order" -> CCXT_get_order(session, venue)
      [] op = "get_order_history" -> CCXT_get_order_history(session, venue)

AlpacaCall(op, session, order_type, price, venue, data) ==
    CASE op = "get_balance" -> Alpaca_get_balance(session, venue, data)
      [] op = "get_positions" -> Alpaca_get_positions(session, venue, data)
      [] op = "get_markets" -> Alpaca_get_markets(session)
      [] op = "get_ticker" -> Alpaca_get_ticker(session)
      [] op = "get_orderbook" -> Alpaca_get_orderbook(session)
      [] op = "place_order" -> Alpaca_place_order(session, order_type, price, venue)
      [] op = "cancel_order" -> Alpaca_cancel_order(session, venue)
      [] op = "get_order" -> Alpaca_get_order(session, venue)
      [] op = "get_order_history" -> Alpaca_get_order_history(session, venue)

PolymarketCall(op, session, order_type, price, venue, data) ==
    CASE op = "get_balance" -> Polymarket_get_balance(session, venue, data)
      [] op = "get_positions" -> Polymarket_get_positions(session)
      [] op = "get_markets" -> Polymarket_get_markets(session, venue)
      [] op = "get_ticker" -> Polymarket_get_ticker(session, venue)
      [] op = "get_orderbook" -> Polymarket_get_orderbook(session, venue)
      [] op = "place_order" -> Polymarket_place_order(session, order_type, price, venue)
      [] op = "cancel_order" -> Polymarket_cancel_order(session, venue)
      [] op = "get_order" -> Polymarket_get_order(session, venue)
      [] op = "get_order_history" -> Polymarket_get_order_history(session, venue)

ConnectorCall(c, op, session, order_type, price, venue, data) ==
    CASE c = "ccxt" -> CCXTCall(op, session, order_type, price, venue, data)
      [] c = "alpaca" -> AlpacaCall(op, session, order_type, price, venue, data)
      [] c = "polymarket" -> PolymarketCall(op, session, order_type, price, venue, data)

(***************************************************************************)
(* initialize() and close() of the connectors.  Each yields how the call   *)
(* ends and what the session attribute holds afterwards.                   *)
(***************************************************************************)
\* direct: the calls into a synchronous venue client made on the calling
\* thread instead of the worker pool
Ended(kind, session) == [kind |-> kind, session |-> session, direct |-> 0]

\* n calls into the client were made without run_in_executor
OnLoop(e, n) == [e EXCEPT !.direct = n]

\* known: ccxt has a class of the configured exchange id; ctor, sandbox,
\* load: what the exchange class's constructor, set_sandbox_mode and
\* load_markets do.  The constructor and set_sandbox_mode stand before the
\* try, and the try catches ccxt's BaseError alone.
CCXT_initialize(session, known, testnet, ctor, sandbox, load) ==
    IF ~known THEN Ended("ConnectorError", session)
    ELSE IF ctor # "ok" THEN Ended(ctor, session)
    ELSE IF testnet /\ sandbox # "ok" THEN Ended(sandbox, "open")
    ELSE IF load = "BaseError" THEN Ended("ConnectorError", "open")
    ELSE IF load = "Exception" THEN Ended("Exception", "open")
    ELSE Ended("ok", "open")

\* TradingClient is built in the worker pool, inside try / except Exception.
Alpaca_initialize(session, ctor) ==
    IF ctor # "ok" THEN Ended("ConnectorError", session)
    ELSE Ended("ok", "open")

\* ClobClient is built and assigned first, then the API credentials are
\* derived and set; all of it inside try / except Exception.
\* Only set_api_creds goes through run_in_executor: ClobClient(...) and
\* create_or_derive_api_creds() (an argument of the run_in_executor call)
\* run on the calling thread.
Polymarket_initialize(session, ctor, creds) ==
    IF ctor # "ok" THEN OnLoop(Ended("ConnectorError", session), 1)
    ELSE IF creds # "ok" THEN OnLoop(Ended("ConnectorError", "open"), 2)
    ELSE OnLoop(Ended("ok", "open"), 2)

\* What initialize() of connector c can do, the venue's part drawn from
\* VenueOutcomes.
InitializeOutcomes(c, session, known, testnet) ==
    CASE c = "ccxt" ->
           {CCXT_initialize(session, known, testnet, ctor, sandbox, load) :
              ctor \in VenueOutcomes, sandbox \in VenueOutcomes, load \in VenueOutcomes}
      [] c = "alpaca" ->
           {Alpaca_initialize(session, ctor) : ctor \in VenueOutcomes}
      [] c = "polymarket" ->
           {Polymarket_initialize(session, ctor, creds) :
              ctor \in VenueOutcomes, creds \in VenueOutcomes}

\* close(): ccxt awaits the exchange's close() before it drops the session.
CCXT_close(session, venue) ==
    IF session = None THEN Ended("ok", None)
    ELSE IF venue # "ok" THEN Ended(venue, session)
    ELSE Ended("ok", None)

Alpaca_close(session) == Ended("ok", None)

Polymarket_close(session) == Ended("ok", None)

ConnectorClose(c, session, venue) ==
    CASE c = "ccxt" -> CCXT_close(session, venue)
      [] c = "alpaca" -> Alpaca_close(session)
      [] c = "polymarket" -> Polymarket_close(session)

(***************************************************************************)
(* The mapping of a venue's order to the domain object Order.              *)
(***************************************************************************)
\* OrderStatus
PENDING == "pending"
OPEN == "open"
PARTIALLY_FILLED == "partially_filled"
FILLED == "filled"
CANCELLED == "cancelled"
REJECTED == "rejected"
EXPIRED == "expired"
OrderStatus ==
    {PENDING, OPEN, PARTIALLY_FILLED, FILLED, CANCELLED, REJECTED, EXPIRED}

CCXT_STATUS_MAP ==
    ("open" :> OPEN) @@ ("closed" :> FILLED) @@ ("canceled" :> CANCELLED)
    @@ ("cancelled" :> CANCELLED) @@ ("expired" :> EXPIRED)
    @@ ("rejected" :> REJECTED)

ALPACA_STATUS_MAP ==
    ("new" :> OPEN) @@ ("accepted" :> OPEN) @@ ("pending_new" :> PENDING)
    @@ ("partially_filled" :> PARTIALLY_FILLED) @@ ("filled" :> FILLED)
    @@ ("done_for_day" :> FILLED) @@ ("canceled" :> CANCELLED)
    @@ ("expired" :> EXPIRED) @@ ("replaced" :> CANCELLED)
    @@ ("rejected" :> REJECTED)

\* dict.get(key, default)
Get(map, key, default) == IF key \in DOMAIN map THEN map[key] ELSE default

\* largest filled or ordered amount of a venue's order
MaxAmount == 2
Amounts == {Absent} \cup {Some(n) : n \in 0..MaxAmount}

\* the status strings a venue may report: those of the two status maps,
\* "live" and "matched" of the prediction market, and one no connector
\* knows; None stands for an order without a status
VenueStatuses ==
    DOMAIN CCXT_STATUS_MAP \cup DOMAIN ALPACA_STATUS_MAP
    \cup {"live", "matched", "unknown"}

\* a venue's order, reduced to its status and its filled and ordered amounts
OrderPayload(status, filled, amount) ==
    [status |-> status, filled |-> filled, amount |-> amount]

OrderPayloads ==
    {OrderPayload(status, filled, amount) :
        status \in VenueStatuses \cup {None}, filled \in Amounts, amount \in Amounts}

NoPayload == OrderPayload(None, Absent, Absent)

\* the domain object Order, reduced to the fields built from those three,
\* and created_at, which the model fills with the time of construction
Order(quantity, filled_quantity, status, created_at) ==
    [quantity |-> quantity, filled_quantity |-> filled_quantity,
     status |-> status, created_at |-> created_at]

\* how a mapping ends: with the Orders built, or with the exception of a
\* conversion that failed
Built(orders) == [kind |-> "ok", orders |-> orders]
Unbuilt == [kind |-> "Exception", orders |-> <<>>]

\* CCXTConnector._map_order at time `now`
CCXT_map_order(data, now) ==
    LET status_str == IF data.status = None THEN "open" ELSE data.status
        filled == OrZero(data.filled)
        amount == OrZero(data.amount)
        status == IF status_str = "open" /\ filled > 0 /\ filled < amount
                  THEN PARTIALLY_FILLED
                  ELSE Get(CCXT_STATUS_MAP, status_str, OPEN)
    IN Built(<<Order(amount, filled, status, now)>>)

\* a mapping whose unknown statuses are PENDING
AlpacaDefaultsToPending(order, now) ==
    IF order.amount = Absent THEN Unbuilt
    ELSE Built(<<Order(order.amount[1], OrZero(order.filled),
                       Get(ALPACA_STATUS_MAP,
                           IF order.status = None THEN "new" ELSE order.status,
                           PENDING),
                       now)>>)

\* AlpacaConnector._map_order at time `now`: Decimal(str(order.qty)) raises
\* for an order without a quantity
Alpaca_map_order(order, now) ==
    LET status_str == IF order.status = None THEN "new" ELSE order.status IN
    IF order.amount = Absent THEN Unbuilt
    ELSE Built(<<Order(order.amount[1], OrZero(order.filled),
                       Get(ALPACA_STATUS_MAP, status_str, OPEN), now)>>)

\* a mapping that takes an order without a status for an open one
PolymarketOpenByDefault(result, now) ==
    Built(<<Order(OrZero(result.amount), OrZero(result.filled),
                  IF result.status \in {"live", None} THEN OPEN ELSE FILLED,
                  now)>>)

\* the Order PolymarketConnector.get_order builds from the venue's answer;
\* an absent amount is a missing key
Polymarket_order(result, now) ==
    Built(<<Order(OrZero(result.amount), OrZero(result.filled),
                  IF result.status = "live" THEN OPEN ELSE FILLED, now)>>)

\* the Order PolymarketConnector.get_order_history builds from one order of
\* the venue's answer
Polymarket_history_order(o, now) ==
    Built(<<Order(OrZero(o.amount), OrZero(o.filled),
                  IF o.status = "live" THEN OPEN ELSE FILLED, now)>>)

\* what get_order / get_order_history of connector c build from the venue's
\* order, once the venue has answered
OrderOf(c, op, data, now) ==
    CASE c = "ccxt" -> CCXT_map_order(data, now)
      [] c = "alpaca" -> Alpaca_map_order(data, now)
      [] c = "polymarket" /\ op = "get_order" -> Polymarket_order(data, now)
      [] c = "polymarket" /\ op = "get_order_history" ->
           Polymarket_history_order(data, now)

(***************************************************************************)
(* The models: Signal's validation of its confidence, and the wire form of *)
(* an Order's order_id and quantity.  A string is a sequence of            *)
(* characters.                                                             *)
(***************************************************************************)
\* the confidence 1.0, confidences being counted in tenths
ConfidenceOne == 10
\* how far below 0.0 and above 1.0 the confidences tried lie, in tenths
MaxBeyond == 5
Confidences == (0 - MaxBeyond)..(ConfidenceOne + MaxBeyond)

\* a validation that forgets the lower bound: Field(le=1.0)
ConfidenceAtMostOne(confidence) == confidence <= ConfidenceOne

\* Field(default=0.0, ge=0.0, le=1.0)
ConfidenceValid(confidence) == confidence >= 0 /\ confidence <= ConfidenceOne

\* what came of making a model object: the input, how the call ended, the
\* wire form (for a round trip) and the object made
Made(what, input, kind, wire, output) ==
    [what |-> what, input |-> input, kind |-> kind, wire |-> wire,
     output |-> output]

NoObject == Made(None, None, None, <<>>, None)

\* Signal(..., confidence=confidence)
NewSignal(confidence) ==
    IF ConfidenceValid(confidence)
    THEN Made("Signal", confidence, "ok", <<>>, [confidence |-> confidence])
    ELSE Made("Signal", confidence, "ValidationError", <<>>, None)

DigitChars == <<"0", "1", "2", "3", "4", "5", "6", "7", "8", "9">>

\* str(n) of a natural number
RECURSIVE DigitsOf(_)
DigitsOf(n) ==
    IF n < 10 THEN <<DigitChars[n + 1]>>
    ELSE DigitsOf(n \div 10) \o <<DigitChars[(n % 10) + 1]>>

\* int(s) of a string of digits; 0 for the empty string
RECURSIVE NatOf(_)
NatOf(s) ==
    IF s = <<>> THEN 0
    ELSE 10 * NatOf(SubSeq(s, 1, Len(s) - 1))
         + (CHOOSE n \in 0..9 : DigitChars[n + 1] = s[Len(s)])

\* '0' * k
Zeros(k) == [i \in 1..k |-> "0"]

\* the place of the first c in s, 0 if there is none
IndexOf(s, c) ==
    IF \E i \in DOMAIN s : s[i] = c
    THEN CHOOSE i \in DOMAIN s : s[i] = c /\ \A j \in 1..(i - 1) : s[j] # c
    ELSE 0

\* a finite Decimal: sign (0 or 1), coefficient and exponent
Decimal(sign, int, exp) == [sign |-> sign, int |-> int, exp |-> exp]

\* largest coefficient and largest exponent of the quantities tried
MaxCoefficient == 120
MaxExponent == 7
Decimals ==
    {Decimal(sign, int, exp) :
        sign \in {0, 1}, int \in 0..MaxCoefficient,
        exp \in (0 - MaxExponent)..MaxExponent}

\* a str() that writes the digits without the exponent
DigitsWithoutExponent(d) ==
    (IF d.sign = 1 THEN <<"-">> ELSE <<>>) \o DigitsOf(d.int)

\* str(d): plain notation for an exponent <= 0 with more than -6 digits
\* left of the point, scientific notation otherwise
DecimalStr(d) ==
    LET int == DigitsOf(d.int)
        leftdigits == d.exp + Len(int)
        dotplace == IF d.exp <= 0 /\ leftdigits > -6 THEN leftdigits ELSE 1
        intpart == IF dotplace <= 0 THEN <<"0">>
                   ELSE IF dotplace >= Len(int)
                   THEN int \o Zeros(dotplace - Len(int))
                   ELSE SubSeq(int, 1, dotplace)
        fracpart == IF dotplace <= 0 THEN <<".">> \o Zeros(0 - dotplace) \o int
                    ELSE IF dotplace >= Len(int) THEN <<>>
                    ELSE <<".">> \o SubSeq(int, dotplace + 1, Len(int))
        e == leftdigits - dotplace
        exp == IF e = 0 THEN <<>>
               ELSE IF e > 0 THEN <<"E", "+">> \o DigitsOf(e)
               ELSE <<"E", "-">> \o DigitsOf(0 - e)
    IN  (IF d.sign = 1 THEN <<"-">> ELSE <<>>) \o intpart \o fracpart \o exp

\* Decimal(s) of a numeric string: sign, digits, fraction, exponent
ParseDecimal(s) ==
    LET negative == s # <<>> /\ s[1] = "-"
        body == IF negative THEN Tail(s) ELSE s
        epos == IndexOf(body, "E")
        mantissa == IF epos = 0 THEN body ELSE SubSeq(body, 1, epos - 1)
        exponent == IF epos = 0 THEN <<>> ELSE SubSeq(body, epos + 1, Len(body))
        e == IF exponent = <<>> THEN 0
             ELSE IF exponent[1] = "-" THEN 0 - NatOf(Tail(exponent))
             ELSE IF exponent[1] = "+" THEN NatOf(Tail(exponent))
             ELSE NatOf(exponent)
        dot == IndexOf(mantissa, ".")
        intpart == IF dot = 0 THEN mantissa ELSE SubSeq(mantissa, 1, dot - 1)
        fracpart == IF dot = 0 THEN <<>> ELSE SubSeq(mantissa, dot + 1, Len(mantissa))
    IN  Decimal(IF negative THEN 1 ELSE 0, NatOf(intpart \o fracpart),
                e - Len(fracpart))

\* d * 10 ** k for k >= 0
RECURSIVE Shifted(_, _)
Shifted(n, k) == IF k = 0 THEN n ELSE Shifted(10 * n, k - 1)

\* a == b of two Decimals: the same number
DecimalEq(a, b) ==
    LET m == IF a.exp < b.exp THEN a.exp ELSE b.exp
        x == Shifted(a.int, a.exp - m)
        y == Shifted(b.int, b.exp - m)
    IN  x = y /\ (x = 0 \/ a.sign = b.sign)

\* longest order_id tried, and the characters it is made of: a letter and
\* the two characters JSON escapes
MaxIdLen == 2
IdChars == {"a", "\"", "\\"}
OrderIds == UNION {[1..n -> IdChars] : n \in 0..MaxIdLen}

\* the JSON string for s: quoted, with " and \ escaped
RECURSIVE JsonEscape(_)
JsonEscape(s) ==
    IF s = <<>> THEN <<>>
    ELSE (IF Head(s) \in {"\"", "\\"} THEN <<"\\", Head(s)>> ELSE <<Head(s)>>)
         \o JsonEscape(Tail(s))

JsonString(s) == <<"\"">> \o JsonEscape(s) \o <<"\"">>

\* the string a JSON string stands for
RECURSIVE JsonUnescape(_)
JsonUnescape(s) ==
    IF s = <<>> THEN <<>>
    ELSE IF Head(s) = "\\" /\ Len(s) > 1
    THEN <<s[2]>> \o JsonUnescape(SubSeq(s, 3, Len(s)))
    ELSE <<Head(s)>> \o JsonUnescape(Tail(s))

JsonParseString(s) == JsonUnescape(SubSeq(s, 2, Len(s) - 1))

\* order.model_dump_json(), of which the model keeps order_id and quantity:
\* a Decimal is written as the JSON string of str(d)
OrderDumpJson(order) ==
    [order_id |-> JsonString(order.order_id),
     quantity |-> JsonString(DecimalStr(order.quantity))]

\* Order.model_validate_json(wire)
OrderValidateJson(wire) ==
    [order_id |-> JsonParseString(wire.order_id),
     quantity |-> ParseDecimal(JsonParseString(wire.quantity))]

\* an Order sent through its wire form
RoundTrip(order) ==
    Made("Order", order, "ok", OrderDumpJson(order),
         OrderValidateJson(OrderDumpJson(order)))

(***************************************************************************)
(* State.                                                                  *)
(***************************************************************************)
VARIABLES
    \* the connectors: self._exchange / self._client of each connector object
    session,
    \* the last operation called on a connector object, and how it ended
    lastCall,
    \* the operations called so far on the stand-alone connectors
    nCalls,
    \* TradingEngine: settings.dry_run
    dry_run,
    \* TradingEngine.connectors: the keys of the map, in insertion order
    connectors,
    \* TradingEngine.strategies: the registry
    strategies,
    \* TradingEngine._tasks: the loop tasks start() created, by their place
    \* in `loops`
    tasks,
    \* TradingEngine._running
    running,
    \* every loop task created so far: its strategy, where its coroutine
    \* is suspended, whether cancel() was called on it, and what its current
    \* iteration has done
    loops,
    \* the start() and the stop() coroutine: where each is suspended
    startCo,
    stopCo,
    \* calls made so far: evaluate() by the loops, start(), stop()
    nEvals,
    nStarts,
    nStops,
    \* the running stop() call: the registry places whose stop hook it has
    \* called, the connectors whose close() it has called, and whether one of
    \* them raised
    hooks,
    closed,
    swallowed,
    \* the get_all_balances() / get_all_positions() coroutine: where it is
    \* suspended, the entries of its `result` so far, and how each
    \* connector's call ended
    aggCo,
    aggOut,
    aggSeen,
    \* AppSettings as far as Engine.initialize() reads it, the initialize()
    \* coroutine, and how each connector's initialize() ended
    settings,
    initCo,
    initSeen,
    \* the order mappings under test: the order a venue holds, the Orders
    \* the connectors have built from it so far, and the wall clock
    payload,
    mapped,
    clock,
    \* the model objects under test: the last Signal constructed or Order
    \* sent through its wire form, and what came of it
    made

connVars == <<lastCall, nCalls>>

engineVars ==
    <<dry_run, connectors, strategies, tasks, running, loops, startCo, stopCo,
      nEvals, nStarts, nStops, hooks, closed, swallowed>>

aggVars == <<aggCo, aggOut, aggSeen>>

initVars == <<settings, initCo, initSeen>>

mapVars == <<payload, mapped, clock>>

modelVars == <<made>>

\* what the engine's lifecycle leaves alone
callerVars == <<connVars, aggVars, initVars, mapVars, modelVars>>

vars == <<session, connVars, engineVars, aggVars, initVars, mapVars, modelVars>>

Range(seq) == {seq[i] : i \in 1..Len(seq)}

\* The engine as constructed, with no connector: what the connectors'
\* caller of SpecConn leaves untouched.
LoopsIdle ==
    /\ strategies = <<>>
    /\ tasks = <<>>
    /\ running = FALSE
    /\ loops = <<>>
    /\ startCo = [pc |-> "idle", i |-> 0]
    /\ stopCo = [pc |-> "idle", i |-> 0]
    /\ nEvals = 0
    /\ nStarts = 0
    /\ nStops = 0
    /\ hooks = {}
    /\ closed = {}
    /\ swallowed = FALSE

\* no aggregate call was made
AggIdle ==
    /\ aggCo = [pc |-> "idle", kind |-> None, i |-> 0]
    /\ aggOut = <<>>
    /\ aggSeen = <<>>

\* the settings of an engine that enables every venue
AllEnabled ==
    [enabled |-> Venues, keyed |-> Venues, known |-> TRUE, testnet |-> FALSE]

\* Engine.initialize() is not modelled: its outcome is the connector map
InitIdle ==
    /\ settings = AllEnabled
    /\ initCo = [pc |-> "done", i |-> 0]
    /\ initSeen = [c \in Venues |-> None]

\* no model object was made
ModelIdle == made = NoObject

\* no order was mapped
MapIdle ==
    /\ payload = NoPayload
    /\ mapped = <<>>
    /\ clock = 0

EngineIdle ==
    /\ dry_run = TRUE
    /\ connectors = <<>>
    /\ LoopsIdle
    /\ AggIdle
    /\ InitIdle
    /\ MapIdle
    /\ ModelIdle

(***************************************************************************)
(* The connectors on their own: a caller that holds the three connector    *)
(* objects and calls their operations in any order.                        *)
(***************************************************************************)
Call(c, op, before, order_type, price, venue, data, r) ==
    [conn |-> c, op |-> op, before |-> before, order_type |-> order_type,
     price |-> price, venue |-> venue, data |-> data, kind |-> r.kind,
     not_init |-> r.not_init, submits |-> r.submits, value |-> r.value,
     order_id |-> r.order_id, direct |-> r.direct]

NoCall ==
    [conn |-> None, op |-> None, before |-> None, order_type |-> MARKET,
     price |-> None, venue |-> None, data |-> Readable(<<>>), kind |-> None,
     not_init |-> FALSE, submits |-> 0, value |-> <<>>, order_id |-> FALSE,
     direct |-> 0]

ConnIdle ==
    /\ lastCall = NoCall
    /\ nCalls = 0

ConnInit ==
    /\ session = [c \in Venues |-> None]
    /\ ConnIdle
    /\ EngineIdle

ConnInitialize(c) ==
    /\ nCalls < MaxCalls
    /\ \E known \in BOOLEAN, testnet \in BOOLEAN :
         \E e \in InitializeOutcomes(c, session[c], known, testnet) :
            /\ session' = [session EXCEPT ![c] = e.session]
            /\ lastCall' = Call(c, "initialize", session[c], MARKET, None,
                                None, Readable(<<>>),
                                OnLoop(Result(e.kind, FALSE, 0, <<>>), e.direct))
    /\ nCalls' = nCalls + 1
    /\ UNCHANGED <<engineVars, aggVars, initVars, mapVars, modelVars>>

ConnOperation(c, op) ==
    /\ nCalls < MaxCalls
    /\ \E order_type \in (IF op = "place_order" THEN OrderTypes ELSE {MARKET}),
          price \in (IF op = "place_order" THEN Prices ELSE {None}),
          venue \in (IF op = "get_positions" THEN PositionOutcomes ELSE VenueOutcomes),
          data \in (IF op \in {"get_balance", "get_positions"}
                    THEN VenueData ELSE {Readable(<<>>)}) :
         lastCall' = Call(c, op, session[c], order_type, price, venue, data,
                          ConnectorCall(c, op, session[c], order_type, price, venue, data))
    /\ nCalls' = nCalls + 1
    /\ UNCHANGED <<session, engineVars, aggVars, initVars, mapVars, modelVars>>

ConnClose(c) ==
    /\ nCalls < MaxCalls
    /\ \E venue \in VenueOutcomes :
         LET e == ConnectorClose(c, session[c], venue) IN
            /\ session' = [session EXCEPT ![c] = e.session]
            /\ lastCall' = Call(c, "close", session[c], MARKET, None,
                                venue, Readable(<<>>),
                                Result(e.kind, FALSE, 0, <<>>))
    /\ nCalls' = nCalls + 1
    /\ UNCHANGED <<engineVars, aggVars, initVars, mapVars, modelVars>>

ConnNext ==
    \/ \E c \in Venues : ConnInitialize(c)
    \/ \E c \in Venues, op \in Operations : ConnOperation(c, op)
    \/ \E c \in Venues : ConnClose(c)

SpecConn == ConnInit /\ [][ConnNext]_vars

(***************************************************************************)
(* TradingEngine: register_strategy(), start(), the strategy loops and     *)
(* stop(), on an engine whose initialize() has returned.                   *)
(***************************************************************************)
\* the strategy objects a caller may register
Strategies == {"s1", "s2"}

\* Signal.strategy_name, the key the loop looks up in the connector map: a
\* connector's name, or a name that is no connector's
SignalKeys == Venues \cup {"momentum"}

Signal(key, order_type, price) ==
    [strategy_name |-> key, order_type |-> order_type, price |-> price]

\* the signals the strategies produce: three for one connector (one of them
\* with a price of zero), one that the prediction-market connector refuses
\* (no price), one for no connector
Signals ==
    {Signal("ccxt", MARKET, None), Signal("ccxt", LIMIT, SomePrice),
     Signal("ccxt", LIMIT, ZeroPrice),
     Signal("polymarket", MARKET, None), Signal("momentum", MARKET, None)}

\* the lists evaluate() may return
Batches == UNION {[1..n -> Signals] : n \in 0..MaxBatch}

\* what a strategy's evaluate(), initialize() or stop() may raise
ExceptionKinds == {"ConnectorError", "OrderError", "Exception"}

\* the connector maps Engine.initialize() can leave
ConnectorMaps ==
    {SelectSeq(ConnectorNames, LAMBDA c : c \in S) : S \in SUBSET Venues}

Idle == [pc |-> "idle", i |-> 0]

\* the arguments of a place_order() call: the connector it is made on, the
\* order type and the price
PlaceArguments(c, order_type, price) ==
    [conn |-> c, order_type |-> order_type, price |-> price]

NoPlace == PlaceArguments(None, MARKET, None)

\* a loop task as asyncio.create_task() makes it: not yet run.  batch is
\* the list evaluate() returned, signals the part of it the for loop has
\* not gone through, call the place_order() call in flight; failed tells
\* that the last iteration ended in the except clause, skipped how many
\* signals of its batch the for loop had not come to.
NewLoop(s) ==
    [strategy |-> s, pc |-> "created", cancel |-> FALSE, batch |-> <<>>,
     signals |-> <<>>, call |-> NoPlace,
     returned |-> 0, found |-> 0, placed |-> 0, logged |-> 0, executed |-> 0,
     failed |-> FALSE, skipped |-> 0]

\* a loop task that has ended: its coroutine's frame is gone
Finished(l, pc) ==
    [NewLoop(l.strategy) EXCEPT !.pc = pc, !.cancel = l.cancel]

\* the places a loop task can be cancelled at
Live == {"created", "evaluate", "place", "sleep"}

Init ==
    /\ dry_run \in BOOLEAN
    /\ connectors \in ConnectorMaps
    /\ session = [c \in Venues |-> IF c \in Range(connectors) THEN "open" ELSE None]
    /\ LoopsIdle
    /\ ConnIdle
    /\ AggIdle
    /\ InitIdle
    /\ MapIdle
    /\ ModelIdle

\* a loop that forgets the dry-run switch: `if connector`
PlaceWheneverFound(found, dry) == found

\* `if connector and not self.settings.dry_run`
ShouldPlace(found, dry) == found /\ ~dry

\* `elif self.settings.dry_run and signals`
ShouldLogDryRun(dry, batch) == dry /\ batch # <<>>

\* a loop that catches the bot's own errors alone: `except TradingBotError`
CatchesOwnErrors(kind) == kind \in {"ConnectorError", "OrderError"}

\* `except Exception` of the loop: every exception class a strategy or a
\* connector raises derives from Exception
LoopCatches(kind) ==
    kind \in {"ConnectorError", "OrderError", "BaseError", "Exception"}

\* `str(signal.price) if signal.price else None`: a Decimal of zero is
\* falsy, as None is
PriceArgument(price) == IF price \in {None, ZeroPrice} THEN None ELSE price

\* The `for signal in signals` loop over the signals still to handle, up
\* to its next await: the place_order() call of a signal whose key is in
\* the map (the signal then heads the list), or the sleep after the last
\* signal.  logged counts the [DRY RUN] lines written.
\* found counts the signals whose key the map holds.
Found(signal) == IF signal.strategy_name \in Range(connectors) THEN 1 ELSE 0

RECURSIVE Route(_, _, _)
Route(signals, logged, found) ==
    IF signals = <<>>
    THEN [pc |-> "sleep", signals |-> <<>>, logged |-> logged, found |-> found]
    ELSE IF ShouldPlace(Found(Head(signals)) = 1, dry_run)
    THEN [pc |-> "place", signals |-> signals, logged |-> logged,
          found |-> found + 1]
    ELSE IF ShouldLogDryRun(dry_run, signals)
    THEN Route(Tail(signals), logged + 1, found + Found(Head(signals)))
    ELSE Route(Tail(signals), logged, found + Found(Head(signals)))

\* a loop that takes up the failed signal again
RetriesFailedSignal(l, kind) == [l EXCEPT !.failed = TRUE]

\* a loop whose try stands inside the for loop: it goes on with the signals
\* after the failed one
ContinuesWithRest(l, kind) ==
    LET h == Route(IF l.pc = "place" THEN Tail(l.signals) ELSE <<>>,
                   l.logged, l.found) IN
    [l EXCEPT !.pc = h.pc, !.signals = h.signals, !.logged = h.logged,
              !.found = h.found,
              !.batch = IF h.pc = "place" THEN @ ELSE <<>>,
              !.call = IF h.pc = "place"
                       THEN PlaceArguments(Head(h.signals).strategy_name,
                                           Head(h.signals).order_type,
                                           PriceArgument(Head(h.signals).price))
                       ELSE NoPlace,
              !.placed = IF h.pc = "place" THEN @ + 1 ELSE @,
              !.failed = TRUE]

\* the loop task after the exception `kind` left the try block: the rest
\* of the signals is dropped
AfterException(l, kind) ==
    IF LoopCatches(kind)
    THEN [l EXCEPT !.pc = "sleep", !.batch = <<>>, !.signals = <<>>,
                   !.call = NoPlace, !.failed = TRUE,
                   !.skipped = IF l.pc = "place" THEN Len(l.signals) - 1 ELSE 0]
    ELSE Finished(l, "died")

\* the place_order() call the loop makes for `signal`
PlaceCall(signal) ==
    PlaceArguments(signal.strategy_name, signal.order_type,
                   PriceArgument(signal.price))

\* a for loop that goes through the signals last to first
RoutesBackwards(l, signals) ==
    LET h == Route([i \in 1..Len(signals) |-> signals[Len(signals) + 1 - i]],
                   l.logged, l.found) IN
    [l EXCEPT !.pc = h.pc, !.signals = h.signals, !.logged = h.logged,
              !.found = h.found,
              !.batch = IF h.pc = "place" THEN @ ELSE <<>>,
              !.call = IF h.pc = "place" THEN PlaceCall(Head(h.signals)) ELSE NoPlace,
              !.placed = IF h.pc = "place" THEN @ + 1 ELSE @,
              !.failed = IF h.pc = "sleep" THEN FALSE ELSE @,
              !.skipped = IF h.pc = "sleep" THEN 0 ELSE @]

\* the loop task after the for loop went on with `signals`
AfterRoute(l, signals) ==
    LET h == Route(signals, l.logged, l.found) IN
    [l EXCEPT !.pc = h.pc, !.signals = h.signals, !.logged = h.logged,
              !.found = h.found,
              !.batch = IF h.pc = "place" THEN @ ELSE <<>>,
              !.call = IF h.pc = "place" THEN PlaceCall(Head(h.signals)) ELSE NoPlace,
              !.placed = IF h.pc = "place" THEN @ + 1 ELSE @,
              !.failed = IF h.pc = "sleep" THEN FALSE ELSE @,
              !.skipped = IF h.pc = "sleep" THEN 0 ELSE @]

LoopIds == 1..Len(loops)

\* register_strategy(): s1 is the strategy registered first, whichever
\* object that is; the same object may be registered again
RegisterStrategy(s) ==
    /\ Len(strategies) < MaxRegistered
    /\ strategies = <<>> => s = "s1"
    /\ strategies' = Append(strategies, s)
    /\ UNCHANGED <<session, callerVars, dry_run, connectors, tasks, running, loops,
                   startCo, stopCo, nEvals, nStarts, nStops, hooks, closed,
                   swallowed>>

\* start() up to its first await: the first strategy's initialize()
StartCall ==
    /\ startCo.pc = "idle"
    /\ nStarts < MaxStarts
    /\ nStarts' = nStarts + 1
    /\ running' = TRUE
    /\ startCo' = IF strategies = <<>> THEN Idle ELSE [pc |-> "initialize", i |-> 1]
    /\ UNCHANGED <<session, callerVars, dry_run, connectors, strategies, tasks,
                   loops, stopCo, nEvals, nStops, hooks, closed, swallowed>>

\* strategy.initialize() returned: the loop task is created and start()
\* goes on to the next strategy of the registry
StartLaunch ==
    /\ startCo.pc = "initialize"
    /\ loops' = Append(loops, NewLoop(strategies[startCo.i]))
    /\ tasks' = Append(tasks, Len(loops) + 1)
    /\ startCo' = IF startCo.i < Len(strategies)
                  THEN [pc |-> "initialize", i |-> startCo.i + 1]
                  ELSE Idle
    /\ UNCHANGED <<session, callerVars, dry_run, connectors, strategies, running,
                   stopCo, nEvals, nStarts, nStops, hooks, closed, swallowed>>

\* a start() that undoes itself when a strategy's initialize() raises: it
\* clears _running and cancels the tasks created so far
StartRollsBack ==
    /\ startCo.pc = "initialize"
    /\ startCo' = Idle
    /\ running' = FALSE
    /\ loops' = [t \in LoopIds |->
                   IF loops[t].pc \in Live
                   THEN [loops[t] EXCEPT !.cancel = TRUE]
                   ELSE loops[t]]
    /\ tasks' = <<>>
    /\ UNCHANGED <<session, callerVars, dry_run, connectors, strategies,
                   stopCo, nEvals, nStarts, nStops, hooks, closed, swallowed>>

\* strategy.initialize() raised: the exception leaves start()
StartRaise ==
    /\ startCo.pc = "initialize"
    /\ startCo' = Idle
    /\ UNCHANGED <<session, callerVars, dry_run, connectors, strategies, tasks,
                   running, loops, stopCo, nEvals, nStarts, nStops, hooks,
                   closed, swallowed>>

\* `while self._running` holds: the loop calls strategy.evaluate()
LoopEvaluate(t) ==
    /\ loops[t].pc \in {"created", "sleep"}
    /\ ~loops[t].cancel
    /\ running
    /\ nEvals < MaxEvals
    /\ nEvals' = nEvals + 1
    /\ loops' = [loops EXCEPT ![t] =
                   [@ EXCEPT !.pc = "evaluate", !.signals = <<>>, !.returned = 0,
                             !.found = 0, !.placed = 0, !.logged = 0, !.executed = 0]]
    /\ UNCHANGED <<session, callerVars, dry_run, connectors, strategies, tasks,
                   running, startCo, stopCo, nStarts, nStops, hooks, closed,
                   swallowed>>

\* `while self._running` fails: the loop coroutine returns
LoopReturn(t) ==
    /\ loops[t].pc \in {"created", "sleep"}
    /\ ~loops[t].cancel
    /\ ~running
    /\ loops' = [loops EXCEPT ![t] = Finished(@, "returned")]
    /\ UNCHANGED <<session, callerVars, dry_run, connectors, strategies, tasks,
                   running, startCo, stopCo, nEvals, nStarts, nStops, hooks,
                   closed, swallowed>>

\* evaluate() returned its signals
EvaluateReturn(t) ==
    /\ loops[t].pc = "evaluate"
    /\ ~loops[t].cancel
    /\ \E batch \in Batches :
         loops' = [loops EXCEPT ![t] =
                     AfterRoute([@ EXCEPT !.returned = Len(batch), !.batch = batch],
                                batch)]
    /\ UNCHANGED <<session, callerVars, dry_run, connectors, strategies, tasks,
                   running, startCo, stopCo, nEvals, nStarts, nStops, hooks,
                   closed, swallowed>>

\* evaluate() raised
EvaluateRaise(t) ==
    /\ loops[t].pc = "evaluate"
    /\ ~loops[t].cancel
    /\ \E kind \in ExceptionKinds :
         loops' = [loops EXCEPT ![t] = AfterException(@, kind)]
    /\ UNCHANGED <<session, callerVars, dry_run, connectors, strategies, tasks,
                   running, startCo, stopCo, nEvals, nStarts, nStops, hooks,
                   closed, swallowed>>

\* the connector's place_order() ended: it returned the order, or raised
PlaceEnd(t) ==
    /\ loops[t].pc = "place"
    /\ ~loops[t].cancel
    /\ \E venue \in VenueOutcomes :
         LET l == loops[t]
             c == l.call.conn
             r == ConnectorCall(c, "place_order", session[c], l.call.order_type,
                                l.call.price, venue, Readable(<<>>))
         IN  loops' = [loops EXCEPT ![t] =
                         IF r.kind = "ok"
                         THEN AfterRoute([l EXCEPT !.executed = @ + 1],
                                         Tail(l.signals))
                         ELSE AfterException(l, r.kind)]
    /\ UNCHANGED <<session, callerVars, dry_run, connectors, strategies, tasks,
                   running, startCo, stopCo, nEvals, nStarts, nStops, hooks,
                   closed, swallowed>>

\* CancelledError is thrown into the task at the await it is suspended at;
\* it is no Exception, so the loop's except clause lets it through
LoopCancelled(t) ==
    /\ loops[t].pc \in Live
    /\ loops[t].cancel
    /\ loops' = [loops EXCEPT ![t] = Finished(@, "cancelled")]
    /\ UNCHANGED <<session, callerVars, dry_run, connectors, strategies, tasks,
                   running, startCo, stopCo, nEvals, nStarts, nStops, hooks,
                   closed, swallowed>>

\* stop() after its strategy loop came to place i of the registry, or after
\* its connector loop came to place i of the map: the next await, or the
\* end of stop(), where the task list is cleared
StopAt(phase, i) ==
    IF phase = "strategy" /\ i <= Len(strategies)
    THEN [pc |-> "strategy", i |-> i]
    ELSE IF phase = "strategy" /\ connectors # <<>>
    THEN [pc |-> "connector", i |-> 1]
    ELSE IF phase = "connector" /\ i <= Len(connectors)
    THEN [pc |-> "connector", i |-> i]
    ELSE Idle

\* stop() up to its first await: _running is cleared and every task of the
\* task list is cancelled
StopCall ==
    /\ stopCo.pc = "idle"
    /\ nStops < MaxStops
    /\ nStops' = nStops + 1
    /\ running' = FALSE
    /\ loops' = [t \in LoopIds |->
                   IF t \in Range(tasks) /\ loops[t].pc \in Live
                   THEN [loops[t] EXCEPT !.cancel = TRUE]
                   ELSE loops[t]]
    /\ hooks' = {}
    /\ closed' = {}
    /\ swallowed' = FALSE
    /\ stopCo' = StopAt("strategy", 1)
    /\ tasks' = IF StopAt("strategy", 1) = Idle THEN <<>> ELSE tasks
    /\ UNCHANGED <<session, callerVars, dry_run, connectors, strategies, startCo,
                   nEvals, nStarts>>

\* a strategy's stop() returned or raised; what it raises is logged
StopHookEnd ==
    /\ stopCo.pc = "strategy"
    /\ hooks' = hooks \cup {stopCo.i}
    /\ \E raised \in BOOLEAN : swallowed' = (swallowed \/ raised)
    /\ stopCo' = StopAt("strategy", stopCo.i + 1)
    /\ tasks' = IF StopAt("strategy", stopCo.i + 1) = Idle THEN <<>> ELSE tasks
    /\ UNCHANGED <<session, callerVars, dry_run, connectors, strategies, running,
                   loops, startCo, nEvals, nStarts, nStops, closed>>

\* a stop() that takes a connector out of the map once it is closed
DropsClosed(map, c) == SelectSeq(map, LAMBDA k : k # c)

\* the connector map after stop() closed connector c: `for name, connector
\* in self.connectors.items()` reads the map and leaves it as it is
AfterClose(map, c) == map

\* a connector's close() returned or raised; what it raises is logged
StopCloseEnd ==
    /\ stopCo.pc = "connector"
    /\ \E venue \in VenueOutcomes :
         LET c == connectors[stopCo.i]
             e == ConnectorClose(c, session[c], venue)
         IN  /\ session' = [session EXCEPT ![c] = e.session]
             /\ closed' = closed \cup {c}
             /\ swallowed' = (swallowed \/ e.kind # "ok")
             /\ connectors' = AfterClose(connectors, c)
    /\ stopCo' = StopAt("connector", stopCo.i + 1)
    /\ tasks' = IF StopAt("connector", stopCo.i + 1) = Idle THEN <<>> ELSE tasks
    /\ UNCHANGED <<callerVars, dry_run, strategies, running, loops,
                   startCo, nEvals, nStarts, nStops, hooks>>

Next ==
    \/ \E s \in Strategies : RegisterStrategy(s)
    \/ StartCall
    \/ StartLaunch
    \/ StartRaise
    \/ \E t \in LoopIds : LoopEvaluate(t)
    \/ \E t \in LoopIds : LoopReturn(t)
    \/ \E t \in LoopIds : EvaluateReturn(t)
    \/ \E t \in LoopIds : EvaluateRaise(t)
    \/ \E t \in LoopIds : PlaceEnd(t)
    \/ \E t \in LoopIds : LoopCancelled(t)
    \/ StopCall
    \/ StopHookEnd
    \/ StopCloseEnd

Spec == Init /\ [][Next]_vars

(***************************************************************************)
(* Properties of the engine's lifecycle and loops, under Spec.             *)
(***************************************************************************)
\* C1: in dry-run mode no loop is ever inside a connector's place_order()
\* nor has begun one in its iteration, and every signal evaluate() returned
\* has its [DRY RUN] line logged.
DryRunNeverPlaces ==
    dry_run =>
        \A t \in LoopIds :
            /\ loops[t].pc # "place"
            /\ loops[t].placed = 0
            /\ loops[t].executed = 0
            /\ loops[t].logged = loops[t].returned

\* C1: a dry-run loop went through a full batch of signals, each with a
\* connector under its key, and sleeps
DryRunLoggedBatch ==
    /\ dry_run
    /\ \E t \in LoopIds :
          /\ loops[t].pc = "sleep"
          /\ loops[t].returned = MaxBatch
          /\ loops[t].found = MaxBatch
          /\ loops[t].logged = MaxBatch

\* C2: no loop task ends by an exception of evaluate() or place_order():
\* a loop whose iteration raised sleeps, and once it sleeps in a running
\* engine, uncancelled, its next step is a call of evaluate().
LoopSurvivesExceptions ==
    \A t \in LoopIds :
        /\ loops[t].pc # "died"
        /\ (loops[t].failed /\ loops[t].pc = "sleep" /\ running
              /\ ~loops[t].cancel /\ nEvals < MaxEvals)
             => ENABLED LoopEvaluate(t)

\* C2: a loop whose last iteration raised is inside evaluate() again
EvaluatedAgainAfterFailure ==
    \E t \in LoopIds : loops[t].pc = "evaluate" /\ loops[t].failed

\* C7: once stop() was called the engine is never running again.
StoppedIsTerminal ==
    nStops > 0 => ~running

\* C8: stop() returns with is_running false, an empty task list and
\* the close() of every connector of the map called.
StopEndsStopped ==
    [][(stopCo'.pc = "idle" /\ (stopCo.pc # "idle" \/ nStops' # nStops))
         => (~running' /\ tasks' = <<>> /\ closed' = Range(connectors))]_vars

\* C9: after stop() cleared _running and cancelled the tasks, no loop
\* begins a call of evaluate().
NoEvaluateAfterStop ==
    [][nStops > 0 => nEvals' = nEvals]_vars

(***************************************************************************)
(* TradingEngine.get_all_balances() and get_all_positions(), called on an  *)
(* engine whose connector map is built; a connector of the map may have    *)
(* been closed by an earlier stop().                                       *)
(***************************************************************************)
AggKinds == {"balances", "positions"}

\* the connector operation an aggregate fans out to
AggOperation(kind) ==
    IF kind = "balances" THEN "get_balance" ELSE "get_positions"

\* an aggregate with no except clause
AggCatchesNothing(kind) == FALSE

\* an aggregate with `except Exception`
AggCatchesEverything(kind) == TRUE

\* `except ConnectorError`
AggCatches(kind) == kind = "ConnectorError"

\* the aggregate's loop at place i of the map: the next connector call, or
\* `return result`
AggAt(kind, i) ==
    IF i <= Len(connectors)
    THEN [pc |-> "await", kind |-> kind, i |-> i]
    ELSE [pc |-> "returned", kind |-> kind, i |-> 0]

AggInit ==
    /\ dry_run = TRUE
    /\ connectors \in ConnectorMaps
    /\ session \in [Venues -> {"open", None}]
    /\ \A c \in Venues \ Range(connectors) : session[c] = None
    /\ LoopsIdle
    /\ ConnIdle
    /\ AggIdle
    /\ InitIdle
    /\ MapIdle
    /\ ModelIdle

\* get_all_balances() or get_all_positions() up to its first await
AggCall(kind) ==
    /\ aggCo.pc # "await"
    /\ aggCo' = AggAt(kind, 1)
    /\ aggOut' = <<>>
    /\ aggSeen' = <<>>
    /\ UNCHANGED <<session, connVars, engineVars, initVars, mapVars, modelVars>>

\* the awaited connector call ended: its list is stored, or an empty list
\* if it raised what the except clause catches; any other exception leaves
\* the aggregate, and `result` with it
AggConnectorEnd ==
    /\ aggCo.pc = "await"
    /\ \E venue \in VenueOutcomes, data \in VenueData :
         LET c == connectors[aggCo.i]
             r == ConnectorCall(c, AggOperation(aggCo.kind), session[c], MARKET,
                                None, venue, data)
         IN  /\ aggSeen' = Append(aggSeen, r)
             /\ IF r.kind = "ok"
                THEN /\ aggOut' = Append(aggOut, r.value)
                     /\ aggCo' = AggAt(aggCo.kind, aggCo.i + 1)
                ELSE IF AggCatches(r.kind)
                THEN /\ aggOut' = Append(aggOut, <<>>)
                     /\ aggCo' = AggAt(aggCo.kind, aggCo.i + 1)
                ELSE /\ aggOut' = <<>>
                     /\ aggCo' = [aggCo EXCEPT !.pc = "raised"]
    /\ UNCHANGED <<session, connVars, engineVars, initVars, mapVars, modelVars>>

AggNext ==
    \/ \E kind \in AggKinds : AggCall(kind)
    \/ AggConnectorEnd

SpecAgg == AggInit /\ [][AggNext]_vars

\* the connector calls of the aggregate that raised
AggFailures(kinds) ==
    {i \in 1..Len(aggSeen) : aggSeen[i].kind \in kinds}

\* C3: when the connector calls of an aggregate raise nothing but
\* ConnectorError, the aggregate does not raise, and it returns one entry
\* per connector of the map: the empty list for a connector that raised,
\* the very list the connector returned otherwise.
AggregateDegradesConnectorError ==
    (\A i \in 1..Len(aggSeen) : aggSeen[i].kind \in {"ok", "ConnectorError"})
    => /\ aggCo.pc # "raised"
       /\ aggCo.pc = "returned" =>
            /\ Len(aggOut) = Len(connectors)
            /\ \A i \in 1..Len(connectors) :
                 aggOut[i] = IF aggSeen[i].kind = "ConnectorError"
                             THEN <<>>
                             ELSE aggSeen[i].value

\* C3: get_all_balances() returned over three connectors, one of which
\* raised ConnectorError and two of which returned balances
OneOfThreeDegraded ==
    /\ aggCo = [pc |-> "returned", kind |-> "balances", i |-> 0]
    /\ Len(connectors) = 3
    /\ Cardinality(AggFailures({"ConnectorError"})) = 1
    /\ Cardinality({i \in 1..3 : aggOut[i] # <<>>}) = 2

\* C4 as stated: whatever a connector call raises, the aggregate returns,
\* with one entry per connector and the empty list for each that raised.
AggregateNeverAborts ==
    /\ aggCo.pc # "raised"
    /\ aggCo.pc = "returned" =>
         /\ Len(aggOut) = Len(connectors)
         /\ \A i \in 1..Len(connectors) :
              aggSeen[i].kind # "ok" => aggOut[i] = <<>>

\* C4: the aggregate raises exactly when a connector call raised something
\* other than ConnectorError; it then stops at that connector and hands
\* no map to its caller.  When it returns, the map has one entry per
\* connector.
AggregateAbortsOnOtherErrors ==
    /\ aggCo.pc = "raised" <=>
         AggFailures({"OrderError", "BaseError", "Exception"}) # {}
    /\ aggCo.pc = "raised" =>
         /\ aggOut = <<>>
         /\ AggFailures({"OrderError", "BaseError", "Exception"}) = {aggCo.i}
         /\ Len(aggSeen) = aggCo.i
    /\ aggCo.pc = "returned" => Len(aggOut) = Len(connectors)

\* C4: an aggregate raised at a connector that is not the last of the map,
\* after an earlier connector's ConnectorError had been degraded
AbortedAfterDegrading ==
    /\ aggCo.pc = "raised"
    /\ aggCo.i = 2
    /\ Len(connectors) = 3
    /\ aggSeen[1].kind = "ConnectorError"
    /\ aggSeen[2].kind = "Exception"

(***************************************************************************)
(* TradingEngine.initialize(), on an engine as constructed.                *)
(***************************************************************************)
\* AppSettings as initialize() reads it: enabled_connectors, the venues
\* whose credential (api_key, private_key) is not empty, whether ccxt has
\* a class of ccxt.exchange, and ccxt.testnet
SettingsSpace ==
    [enabled : SUBSET Venues, keyed : SUBSET Venues, known : BOOLEAN,
     testnet : BOOLEAN]

\* `"ccxt" in s.enabled_connectors and s.ccxt.api_key`, and alike
Wanted(c) == c \in settings.enabled /\ c \in settings.keyed

\* `except ConnectorError` of _init_connector
InitCatches(kind) == kind = "ConnectorError"

\* initialize() from its i-th `if` on: the next connector it builds and
\* whose initialize() it awaits, or its end
InitAt(i) ==
    LET rest == {j \in i..Len(ConnectorNames) : Wanted(ConnectorNames[j])} IN
    IF rest = {} THEN [pc |-> "done", i |-> 0]
    ELSE [pc |-> "await", i |-> CHOOSE j \in rest : \A k \in rest : j <= k]

InitInit ==
    /\ settings \in SettingsSpace
    /\ initCo = [pc |-> "created", i |-> 0]
    /\ initSeen = [c \in Venues |-> None]
    /\ session = [c \in Venues |-> None]
    /\ dry_run = TRUE
    /\ connectors = <<>>
    /\ LoopsIdle
    /\ ConnIdle
    /\ AggIdle
    /\ MapIdle
    /\ ModelIdle

\* Engine.initialize() up to its first await
EngineInitialize ==
    /\ initCo.pc = "created"
    /\ initCo' = InitAt(1)
    /\ UNCHANGED <<session, connVars, engineVars, aggVars, settings, initSeen,
                   mapVars, modelVars>>

\* _init_connector(): the connector's initialize() returned and the
\* connector enters the map, or it raised: a ConnectorError is logged, any
\* other exception leaves _init_connector() and initialize()
InitConnectorEnd ==
    /\ initCo.pc = "await"
    /\ LET c == ConnectorNames[initCo.i] IN
       \E e \in InitializeOutcomes(c, session[c], settings.known, settings.testnet) :
          /\ session' = [session EXCEPT ![c] = e.session]
          /\ initSeen' = [initSeen EXCEPT ![c] = e.kind]
          /\ connectors' = IF e.kind = "ok" THEN Append(connectors, c)
                           ELSE connectors
          /\ initCo' = IF e.kind = "ok" \/ InitCatches(e.kind)
                       THEN InitAt(initCo.i + 1)
                       ELSE [initCo EXCEPT !.pc = "raised"]
    /\ UNCHANGED <<connVars, dry_run, strategies, tasks, running, loops, startCo,
                   stopCo, nEvals, nStarts, nStops, hooks, closed, swallowed,
                   aggVars, settings, mapVars, modelVars>>

InitNext ==
    \/ EngineInitialize
    \/ InitConnectorEnd

SpecInit == InitInit /\ [][InitNext]_vars

\* C6: Engine.initialize() never raises, and when it has returned the map
\* holds exactly the venues that are enabled, have a credential, and whose
\* initialize() succeeded.
InitializeToleratesFailures ==
    /\ initCo.pc # "raised"
    /\ initCo.pc = "done" =>
         \A c \in Venues :
            c \in Range(connectors) <=> (Wanted(c) /\ initSeen[c] = "ok")

(***************************************************************************)
(* Properties of the connectors on their own, under SpecConn.              *)
(***************************************************************************)
\* C5: place_order() of an initialized connector with a LIMIT order and no
\* price raises OrderError and submits nothing to the venue.
LimitNeedsPrice ==
    (/\ lastCall.op = "place_order"
     /\ lastCall.before = "open"
     /\ lastCall.order_type = LIMIT
     /\ lastCall.price = None)
    => (lastCall.kind = "OrderError" /\ lastCall.submits = 0)

\* C10: an operation called on a connector that holds no session raises a
\* ConnectorError that says the connector is not initialized.
UninitializedRaisesConnectorError ==
    (lastCall.op \in Operations /\ lastCall.before = None)
    => (lastCall.kind = "ConnectorError" /\ lastCall.not_init)

\* C11: close() never raises and leaves the connector without a session,
\* whether it held one or not.
CloseIsSafe ==
    lastCall.op = "close"
    => (lastCall.kind = "ok" /\ session[lastCall.conn] = None)


(***************************************************************************)
(* get_order() and get_order_history() on initialized connectors whose     *)
(* venue answers with one order: the Orders built from it, as time passes. *)
(***************************************************************************)
\* orders fetched, by all connectors together
MaxMaps == 2
\* ticks of the wall clock
MaxClock == 1

MapInit ==
    /\ payload \in OrderPayloads
    /\ mapped = <<>>
    /\ clock = 0
    /\ ModelIdle
    /\ session = [c \in Venues |-> "open"]
    /\ dry_run = TRUE
    /\ connectors = <<>>
    /\ LoopsIdle
    /\ ConnIdle
    /\ AggIdle
    /\ InitIdle

Fetched(c, op, data, r) ==
    [conn |-> c, op |-> op, data |-> data, kind |-> r.kind, orders |-> r.orders]

\* get_order(): the Order built from the venue's answer
GetOrder(c) ==
    /\ Len(mapped) < MaxMaps
    /\ session[c] = "open"
    /\ mapped' = Append(mapped, Fetched(c, "get_order", payload,
                                        OrderOf(c, "get_order", payload, clock)))
    /\ UNCHANGED <<session, connVars, engineVars, aggVars, initVars, payload, clock,
                   modelVars>>

\* get_order_history(): the Orders built from the venue's answer
GetOrderHistory(c) ==
    /\ Len(mapped) < MaxMaps
    /\ session[c] = "open"
    /\ mapped' = Append(mapped, Fetched(c, "get_order_history", payload,
                                        OrderOf(c, "get_order_history", payload, clock)))
    /\ UNCHANGED <<session, connVars, engineVars, aggVars, initVars, payload, clock,
                   modelVars>>

\* time passes between two calls
Tick ==
    /\ clock < MaxClock
    /\ clock' = clock + 1
    /\ UNCHANGED <<session, connVars, engineVars, aggVars, initVars, payload, mapped,
                   modelVars>>

MapNext ==
    \/ \E c \in Venues : GetOrder(c)
    \/ \E c \in Venues : GetOrderHistory(c)
    \/ Tick

SpecMap == MapInit /\ [][MapNext]_vars

\* C12: the crypto connector maps an open order with 0 < filled < amount to
\* PARTIALLY_FILLED with the payload's filled amount, and maps the same
\* payload to the same Order however often it is mapped.
OrderMappingIsPure ==
    \A i \in DOMAIN mapped :
        mapped[i].conn = "ccxt" =>
            /\ (/\ mapped[i].data.status = "open"
                /\ 0 < OrZero(mapped[i].data.filled)
                /\ OrZero(mapped[i].data.filled) < OrZero(mapped[i].data.amount))
               => /\ mapped[i].orders[1].status = PARTIALLY_FILLED
                  /\ mapped[i].orders[1].filled_quantity = mapped[i].data.filled[1]
            /\ \A j \in DOMAIN mapped :
                  (mapped[j].conn = "ccxt" /\ mapped[j].data = mapped[i].data)
                  => mapped[j].orders = mapped[i].orders


\* the venue statuses the mapping of connector c has a case for
Recognized(c) ==
    CASE c = "ccxt" -> DOMAIN CCXT_STATUS_MAP
      [] c = "alpaca" -> DOMAIN ALPACA_STATUS_MAP
      [] c = "polymarket" -> {"live"}

\* the Orders built from a status string the connector has no case for
Unrecognized(conns) ==
    {mapped[i].orders[1] :
        i \in {n \in DOMAIN mapped :
                 /\ mapped[n].conn \in conns
                 /\ mapped[n].kind = "ok"
                 /\ mapped[n].data.status # None
                 /\ mapped[n].data.status \notin Recognized(mapped[n].conn)}}

\* every Order built carries one of the seven statuses
StatusesAreOrderStatuses ==
    \A i \in DOMAIN mapped :
        \A n \in DOMAIN mapped[i].orders : mapped[i].orders[n].status \in OrderStatus

\* C13: every connector maps every venue status to one of the seven
\* OrderStatus values, and a status string it does not recognize to OPEN.
UnrecognizedStatusIsOpen ==
    /\ StatusesAreOrderStatuses
    /\ \A o \in Unrecognized(Venues) : o.status = OPEN

\* C13, amended: every connector maps every venue status to one of the seven
\* OrderStatus values; the crypto and the brokerage connector map a status
\* string they do not recognize to OPEN, the prediction-market connector
\* maps every status other than "live" to FILLED.
UnrecognizedStatusIsOpenOrFilled ==
    /\ StatusesAreOrderStatuses
    /\ \A o \in Unrecognized({"ccxt", "alpaca"}) : o.status = OPEN
    /\ \A o \in Unrecognized({"polymarket"}) : o.status = FILLED

\* an unknown status was mapped by the brokerage and by the prediction-market
\* connector
UnknownStatusMappedTwice ==
    /\ Len(mapped) = 2
    /\ payload.status = "unknown"
    /\ mapped[1].conn = "alpaca" /\ mapped[1].kind = "ok"
    /\ mapped[1].orders[1].status = OPEN
    /\ mapped[2].conn = "polymarket"
    /\ mapped[2].orders[1].status = FILLED

\* C14: an Order of the prediction-market connector's get_order or
\* get_order_history is OPEN if and only if the venue status is "live", and
\* FILLED otherwise.
PolymarketStatusIsBinary ==
    \A i \in DOMAIN mapped :
        mapped[i].conn = "polymarket" =>
            /\ mapped[i].kind = "ok"
            /\ \A n \in DOMAIN mapped[i].orders :
                  /\ mapped[i].orders[n].status \in {OPEN, FILLED}
                  /\ mapped[i].orders[n].status = OPEN <=> mapped[i].data.status = "live"

\* both operations have mapped an order that is not "live"
BothOperationsFilled ==
    /\ Len(mapped) = 2
    /\ payload.status \in {"matched", None}
    /\ mapped[1].conn = "polymarket" /\ mapped[1].op = "get_order"
    /\ mapped[2].conn = "polymarket" /\ mapped[2].op = "get_order_history"
    /\ mapped[1].orders[1].status = FILLED
    /\ mapped[2].orders[1].status = FILLED


\* C17: cancel_order returns true only when the venue's cancel call
\* completed without error; in every other case it raises an OrderError
\* that carries the order_id.
CancelTrueOrOrderError ==
    lastCall.op = "cancel_order"
    => IF lastCall.before = "open" /\ lastCall.venue = "ok"
       THEN lastCall.kind = "ok" /\ lastCall.value = TRUE
       ELSE lastCall.kind = "OrderError" /\ lastCall.order_id

\* the venue's cancel call failed with an error of the venue SDK
CancelRejected ==
    /\ lastCall.op = "cancel_order"
    /\ lastCall.before = "open"
    /\ VenueRejects(lastCall.conn, lastCall.venue)

\* C17, amended: cancel_order returns true if and only if the connector is
\* initialized and the venue's cancel call completed without error, and it
\* never returns anything else; when the venue's cancel call fails with an
\* error of the venue SDK it raises an OrderError that carries the order_id.
CancelTrueOrRaises ==
    lastCall.op = "cancel_order"
    => /\ lastCall.kind = "ok" <=> (lastCall.before = "open" /\ lastCall.venue = "ok")
       /\ lastCall.kind = "ok" => lastCall.value = TRUE
       /\ CancelRejected => (lastCall.kind = "OrderError" /\ lastCall.order_id)

\* the crypto venue refused a cancellation
CancelRefusedByVenue ==
    /\ CancelRejected
    /\ lastCall.conn = "ccxt"
    /\ lastCall.kind = "OrderError"
    /\ lastCall.order_id

\* the entries of a balance answer, and the balances returned for it
BalanceEntries == Range(lastCall.data.entries)
BalancesReturned == Range(lastCall.value)

\* C20: the crypto connector returns a Balance for a currency only if the
\* venue's total of it is non-zero (none for a zero or missing total), with
\* 0 for a free or used amount the venue omits; the brokerage and the
\* prediction-market connector return exactly one Balance, in USD and USDC.
BalanceShape ==
    (lastCall.op = "get_balance" /\ lastCall.kind = "ok")
    => CASE lastCall.conn = "ccxt" ->
              /\ \A b \in BalancesReturned :
                    \E e \in BalanceEntries :
                       /\ e.currency = b.currency
                       /\ OrZero(e.total) # 0
                       /\ b.total = OrZero(e.total)
                       /\ b.free = OrZero(e.free)
                       /\ b.used = OrZero(e.used)
              /\ \A e \in BalanceEntries :
                    OrZero(e.total) = 0
                    => \A b \in BalancesReturned : b.currency # e.currency
         [] lastCall.conn = "alpaca" ->
              Len(lastCall.value) = 1 /\ lastCall.value[1].currency = "USD"
         [] lastCall.conn = "polymarket" ->
              Len(lastCall.value) = 1 /\ lastCall.value[1].currency = "USDC"

\* a currency without a total was left out, another got its missing used
\* amount as 0
BalanceOmittedAndDefaulted ==
    /\ lastCall.op = "get_balance"
    /\ lastCall.conn = "ccxt"
    /\ lastCall.kind = "ok"
    /\ \E e \in BalanceEntries : e.total = Absent
    /\ \E e \in BalanceEntries :
          e.used = Absent /\ \E b \in BalancesReturned : b.currency = e.currency /\ b.used = 0


\* C15: a place_order() call is made only outside dry-run mode, on the
\* connector whose key is the signal's strategy_name, a key of the connector
\* map, with the signal's order type and price; it is made once for each
\* signal whose key the map holds and for no other signal.
SignalsRouted ==
    \A t \in LoopIds :
        LET l == loops[t] IN
        /\ l.pc = "place" =>
              /\ ~dry_run
              /\ Head(l.signals).strategy_name \in Range(connectors)
              /\ l.call.conn = Head(l.signals).strategy_name
              /\ l.call.order_type = Head(l.signals).order_type
              /\ l.call.price = Head(l.signals).price
        /\ l.placed <= l.found
        /\ (l.pc = "sleep" /\ ~l.failed /\ ~dry_run) => l.placed = l.found

\* C16: the signals of one evaluate() call are placed one after the other
\* in the order returned: the call in flight is for the head of what is
\* left of the batch, every earlier call of the batch has ended, and nothing
\* of a batch is left when the next evaluate() begins.
PlacedInOrder ==
    \A t \in LoopIds :
        LET l == loops[t] IN
        /\ l.pc = "place" =>
              /\ \E k \in 1..Len(l.batch) : l.signals = SubSeq(l.batch, k, Len(l.batch))
              /\ l.call.conn = Head(l.signals).strategy_name
              /\ l.placed = l.executed + 1
        /\ l.pc = "sleep" => (l.placed = l.executed \/ l.failed)
        /\ l.pc = "evaluate" =>
              (l.signals = <<>> /\ l.batch = <<>> /\ l.call = NoPlace /\ l.placed = 0)

\* the second signal of a batch is being placed after the first was executed
SecondSignalInFlight ==
    \E t \in LoopIds :
        /\ loops[t].pc = "place"
        /\ Len(loops[t].batch) = 2
        /\ loops[t].signals = <<loops[t].batch[2]>>
        /\ loops[t].batch[1] # loops[t].batch[2]
        /\ loops[t].executed = 1

LiveLoops(ls) == {t \in DOMAIN ls : ls[t].pc \in Live /\ ~ls[t].cancel}

\* a step in which a start() call returns
StartCompletes ==
    \/ startCo.pc = "idle" /\ nStarts' > nStarts /\ startCo'.pc = "idle"
    \/ startCo.pc = "initialize" /\ startCo'.pc = "idle" /\ Len(loops') > Len(loops)

\* C19: when a start() call returns there is exactly one loop per strategy
\* registered at that time.
OneLoopPerStrategy ==
    [][StartCompletes => Cardinality(LiveLoops(loops')) = Len(strategies')]_vars


\* C21: get_positions() of the crypto and of the prediction-market
\* connector never raises on an initialized connector: the prediction
\* market's list is always empty, the crypto connector's is empty whenever
\* the venue's position fetch is unsupported or fails.
PositionsNeverRaise ==
    (/\ lastCall.op = "get_positions"
     /\ lastCall.conn \in {"ccxt", "polymarket"}
     /\ lastCall.before = "open")
    => /\ lastCall.kind = "ok"
       /\ lastCall.conn = "polymarket" => lastCall.value = <<>>
       /\ lastCall.venue # "ok" => lastCall.value = <<>>

\* C21, amended: the prediction-market connector's get_positions() always
\* returns the empty list; the crypto connector's, once initialized,
\* returns the empty list whenever the venue's position fetch raises a
\* ccxt error or NotImplementedError, and raises only when the fetch raises
\* another exception or answers with data it cannot read.
PositionsEmptyWhenUnsupported ==
    lastCall.op = "get_positions"
    => /\ lastCall.conn = "polymarket" =>
             (lastCall.kind = "ok" /\ lastCall.value = <<>>)
       /\ (lastCall.conn = "ccxt" /\ lastCall.before = "open") =>
             /\ lastCall.venue \in {"BaseError", "NotImplementedError"} =>
                   (lastCall.kind = "ok" /\ lastCall.value = <<>>)
             /\ lastCall.kind # "ok" =>
                   \/ lastCall.venue = "Exception"
                   \/ lastCall.venue = "ok" /\ lastCall.data = Malformed

\* the crypto venue has no positions, and the connector returned none
PositionsUnsupported ==
    /\ lastCall.op = "get_positions"
    /\ lastCall.conn = "ccxt"
    /\ lastCall.before = "open"
    /\ lastCall.venue = "NotImplementedError"
    /\ lastCall.kind = "ok"
    /\ lastCall.value = <<>>


(***************************************************************************)
(* The models on their own: Signals are constructed, Orders are dumped to  *)
(* JSON and validated back.                                                *)
(***************************************************************************)
\* the call about to be made: Signal(confidence=...) or the round trip of a
\* valid Order
Pending(what, input) == Made(what, input, "pending", <<>>, None)

ModelInit ==
    /\ made \in {Pending("Signal", confidence) : confidence \in Confidences}
               \cup {Pending("Order", [order_id |-> order_id, quantity |-> quantity]) :
                        order_id \in OrderIds, quantity \in Decimals}
    /\ session = [c \in Venues |-> None]
    /\ ConnIdle
    /\ dry_run = TRUE
    /\ connectors = <<>>
    /\ LoopsIdle
    /\ AggIdle
    /\ InitIdle
    /\ MapIdle

\* Signal(...) is called with the confidence
ConstructSignal ==
    /\ made.what = "Signal"
    /\ made.kind = "pending"
    /\ made' = NewSignal(made.input)
    /\ UNCHANGED <<session, connVars, engineVars, aggVars, initVars, mapVars>>

\* a valid Order is dumped and validated back
RoundTripOrder ==
    /\ made.what = "Order"
    /\ made.kind = "pending"
    /\ made' = RoundTrip(made.input)
    /\ UNCHANGED <<session, connVars, engineVars, aggVars, initVars, mapVars>>

ModelNext ==
    \/ ConstructSignal
    \/ RoundTripOrder

SpecModels == ModelInit /\ [][ModelNext]_vars

\* C22: a Signal is made if and only if its confidence lies in [0.0, 1.0],
\* the two bounds included, so that every Signal made has such a confidence.
ConfidenceIsBounded ==
    (made.what = "Signal" /\ made.kind # "pending")
    => /\ made.kind = "ok" <=> (0 <= made.input /\ made.input <= ConfidenceOne)
       /\ made.kind # "ok" => made.kind = "ValidationError"
       /\ made.kind = "ok" =>
             /\ made.output.confidence = made.input
             /\ 0 <= made.output.confidence
             /\ made.output.confidence <= ConfidenceOne

\* a confidence just below 0.0 was refused
NegativeConfidenceRefused ==
    /\ made.what = "Signal"
    /\ made.input = -1
    /\ made.kind = "ValidationError"

\* C23: the Order that comes back from the wire form of a valid Order has
\* the order_id and the quantity of the original.
OrderRoundTrips ==
    (made.what = "Order" /\ made.kind # "pending")
    => /\ made.kind = "ok"
       /\ made.output.order_id = made.input.order_id
       /\ DecimalEq(made.output.quantity, made.input.quantity)

\* an Order whose id needs escaping and whose quantity is written with an
\* exponent came back
EscapedIdAndExponentCameBack ==
    /\ made.what = "Order"
    /\ made.kind = "ok"
    /\ made.input.order_id = <<"\"", "\\">>
    /\ made.input.quantity = Decimal(1, 12, 2)
    /\ made.wire.quantity = <<"\"", "-", "1", ".", "2", "E", "+", "3", "\"">>
    /\ made.output = made.input


\* C24: register_strategy(), start(), the strategy loops and stop() leave
\* the connector map as it is: the same keys, bound to the same connectors.
ConnectorMapIsReadOnly == [][connectors' = connectors]_vars

\* stop() has closed every connector of a map the loops have worked with
StoppedWithMapIntact ==
    /\ nStops = 1
    /\ stopCo.pc = "idle"
    /\ nEvals > 0
    /\ Len(connectors) = 3
    /\ closed = Range(connectors)


\* C25: no operation of the brokerage or of the prediction-market
\* connector, initialize() included, calls into the synchronous venue client
\* on the calling thread: every such call goes through the worker pool.
SyncCallsLeaveTheLoop ==
    lastCall.conn \in {"alpaca", "polymarket"} => lastCall.direct = 0


\* Within one loop task: the task calls evaluate() only when it is new or
\* comes out of its sleep, and it goes to sleep once after every evaluate(),
\* whatever the iteration did.
OneSleepBetweenEvaluations ==
    [][\A t \in LoopIds :
          LET l == loops[t]
              n == loops'[t]
          IN  /\ (n.pc = "evaluate" /\ l.pc # "evaluate") => l.pc \in {"created", "sleep"}
              /\ (l.pc = "evaluate" /\ n.pc # "evaluate") =>
                    n.pc \in {"place", "sleep", "cancelled"}
              /\ (l.pc = "place" /\ n.pc # "place") => n.pc \in {"sleep", "cancelled"}
              /\ (n.pc = "sleep" /\ l.pc # "sleep") => l.pc \in {"evaluate", "place"}
              /\ (n.pc = "created") => l.pc = "created"]_vars

\* a loop evaluates again after an iteration that raised
EvaluatesAgainAfterSleep ==
    \E t \in LoopIds :
        /\ loops[t].pc = "evaluate"
        /\ loops[t].failed
        /\ nEvals = 2
        /\ Len(loops) = 1

\* C26: between two consecutive evaluate() calls on one strategy lies one
\* full sleep: when a loop calls evaluate(), no other loop of the same
\* strategy is inside an iteration or still in the sleep that follows it.
DelayBetweenEvaluations ==
    [][\A t \in LoopIds :
          (loops'[t].pc = "evaluate" /\ loops[t].pc # "evaluate") =>
              \A u \in LoopIds \ {t} :
                  loops[u].strategy = loops[t].strategy =>
                      loops[u].pc \notin {"evaluate", "place", "sleep"}]_vars

\* C27: when place_order() raises, the loop goes to sleep without placing
\* the signals of the batch that follow the failed one and without placing
\* the failed one again; a place_order() call is made for a batch fresh from
\* evaluate() or after the call before it returned.
RestOfBatchIsSkipped ==
    [][\A t \in LoopIds :
          LET l == loops[t]
              n == loops'[t]
          IN  /\ (l.pc = "place" /\ n.pc = "sleep" /\ n.failed) =>
                    /\ n.signals = <<>>
                    /\ n.call = NoPlace
                    /\ n.placed = l.placed
                    /\ n.executed = l.executed
                    /\ n.skipped = Len(l.signals) - 1
              /\ (l.pc = "place" /\ n.pc = "place" /\ n.signals # l.signals) =>
                    /\ n.executed = l.executed + 1
                    /\ Len(n.signals) < Len(l.signals)
              /\ (n.pc = "place" /\ l.pc # "place") => l.pc = "evaluate"]_vars

\* the first order of a batch of two failed and the second was skipped
SecondSignalSkipped ==
    \E t \in LoopIds :
        /\ loops[t].pc = "sleep"
        /\ loops[t].failed
        /\ loops[t].returned = 2
        /\ loops[t].skipped = 1
        /\ loops[t].placed = 1
        /\ loops[t].executed = 0


\* C28: every registered strategy has at most one live evaluation loop at
\* any time.
AtMostOneLiveLoop ==
    \A s \in Range(strategies) :
        Cardinality({t \in LiveLoops(loops) : loops[t].strategy = s}) <= 1


(***************************************************************************)
(* One start() call on an engine with two registered strategies, followed  *)
(* by the loops it launched and by stop().                                 *)
(***************************************************************************)
Registry == <<"s1", "s2">>

StartInit ==
    /\ dry_run \in BOOLEAN
    /\ connectors = <<"ccxt">>
    /\ session = [c \in Venues |-> IF c \in Range(connectors) THEN "open" ELSE None]
    /\ strategies = Registry
    /\ tasks = <<>>
    /\ running = FALSE
    /\ loops = <<>>
    /\ startCo = Idle
    /\ stopCo = Idle
    /\ nEvals = 0
    /\ nStarts = 0
    /\ nStops = 0
    /\ hooks = {}
    /\ closed = {}
    /\ swallowed = FALSE
    /\ ConnIdle
    /\ AggIdle
    /\ InitIdle
    /\ MapIdle
    /\ ModelIdle

StartNext ==
    \/ nStarts = 0 /\ StartCall
    \/ StartLaunch
    \/ StartRaise
    \/ \E t \in LoopIds : LoopEvaluate(t)
    \/ \E t \in LoopIds : LoopReturn(t)
    \/ \E t \in LoopIds : EvaluateReturn(t)
    \/ \E t \in LoopIds : EvaluateRaise(t)
    \/ \E t \in LoopIds : PlaceEnd(t)
    \/ \E t \in LoopIds : LoopCancelled(t)
    \/ StopCall
    \/ StopHookEnd
    \/ StopCloseEnd

SpecStart == StartInit /\ [][StartNext]_vars

\* a step in which initialize() of the strategy start() has come to raises
StartFails ==
    /\ startCo.pc = "initialize"
    /\ startCo'.pc = "idle"
    /\ Len(loops') = Len(loops)

\* start() has ended and left a strategy of the registry without a loop
StartFailed ==
    /\ nStarts = 1
    /\ startCo.pc = "idle"
    /\ Len(loops) < Len(strategies)

\* C29: when initialize() of the k-th strategy raises, start() ends there:
\* the k-1 loops launched before stay as they are and no loop is launched
\* for the k-th strategy or a later one, _running stays true, and until
\* stop() is called the engine is running and every launched loop is live.
StartFailureKeepsEarlierLoops ==
    /\ [](startCo.pc = "initialize" => Len(loops) = startCo.i - 1)
    /\ [](\A t \in LoopIds : loops[t].strategy = strategies[t])
    /\ []((nStarts = 1 /\ nStops = 0) =>
            /\ running
            /\ \A t \in LoopIds : loops[t].pc \in Live /\ ~loops[t].cancel)
    /\ [][StartFails =>
            /\ loops' = loops
            /\ tasks' = tasks
            /\ running' = running
            /\ nStops = 0 => running']_vars
    /\ [][StartFailed => StartFailed' /\ Len(loops') = Len(loops)]_vars

\* initialize() of the second strategy raised; the first strategy's loop
\* is in its second evaluate() and the engine is running
FirstLoopRunsAfterFailedStart ==
    /\ StartFailed
    /\ Len(loops) = 1
    /\ nStops = 0
    /\ running
    /\ loops[1].strategy = "s1"
    /\ loops[1].pc = "evaluate"
    /\ ~loops[1].cancel
    /\ nEvals = 2


(***************************************************************************)
(* Engine.initialize() followed by stop(), on an engine with no strategy.  *)
(***************************************************************************)
\* Engine.initialize() has ended: it returned, or an exception left it
Initialized == initCo.pc \in {"done", "raised"}

ShutdownNext ==
    \/ EngineInitialize
    \/ InitConnectorEnd
    \/ Initialized /\ StopCall
    \/ StopCloseEnd

SpecShutdown == InitInit /\ [][ShutdownNext]_vars

\* C30: after Engine.initialize() and a stop() that has returned, no
\* connector holds a venue session: those of the map were closed, those
\* whose initialize() failed never had one.
NoSessionOutlivesShutdown ==
    (Initialized /\ nStops = 1 /\ stopCo.pc = "idle") =>
        \A c \in Venues : session[c] = None

====
